---------------------------- MODULE Spec2Model ----------------------------
(***************************************************************************)
(* Model of app/utils/__init__.py of kernelci-backend: the identifier      *)
(* validators, the defconfig_full resolver and the build directory         *)
(* builder.  Python strings are sequences of one-character strings; the    *)
(* state is the last call made into the module (its arguments, its return  *)
(* value and the exception it raised, if any).                             *)
(***************************************************************************)
EXTENDS Integers, Sequences, FiniteSets

VARIABLES op, name, build_dir, defconfig, defconfig_full, kconfig_fragments,
          json_obj, is_valid, ret, exc

vars == <<op, name, build_dir, defconfig, defconfig_full, kconfig_fragments,
          json_obj, is_valid, ret, exc>>

\* ------------------------------------------------------------------ bounds
MaxNameLen == 3
MaxFragPieces == 3
MaxDirPieces == 3
MaxCompLen == 2

\* ------------------------------------------------------- Python primitives
\* Python's None: a one-element tuple that is not a string over any alphabet.
None == <<"None">>

Lower == {"a","b","c","d","e","f","g","h","i","j","k","l","m",
          "n","o","p","q","r","s","t","u","v","w","x","y","z"}
Upper == {"A","B","C","D","E","F","G","H","I","J","K","L","M",
          "N","O","P","Q","R","S","T","U","V","W","X","Y","Z"}
Digit == {"0","1","2","3","4","5","6","7","8","9"}

\* The character class a-zA-Z0-9 of the three start/end/interior patterns.
Alnum == Lower \cup Upper \cup Digit

\* str.startswith(prefix)
startswith(s, prefix) ==
    /\ Len(prefix) <= Len(s)
    /\ SubSeq(s, 1, Len(prefix)) = prefix

\* str.endswith(suffix)
endswith(s, suffix) ==
    /\ Len(suffix) <= Len(s)
    /\ SubSeq(s, Len(s) - Len(suffix) + 1, Len(s)) = suffix

\* `sub in s` for strings
contains(s, sub) ==
    \E i \in 1..(Len(s) - Len(sub) + 1) : SubSeq(s, i, i + Len(sub) - 1) = sub

\* str.replace(old, "", count): leftmost non-overlapping occurrences of a
\* non-empty old are removed; count < 0 removes them all.
RECURSIVE replace(_, _, _)
replace(s, old, count) ==
    IF count = 0 \/ Len(s) < Len(old) THEN s
    ELSE IF startswith(s, old)
         THEN replace(SubSeq(s, Len(old) + 1, Len(s)), old, count - 1)
         ELSE <<Head(s)>> \o replace(Tail(s), old, count)

\* posixpath.join(a, b)
os_path_join(a, b) ==
    IF startswith(b, <<"/">>) THEN b
    ELSE IF a = <<>> \/ endswith(a, <<"/">>) THEN a \o b
    ELSE a \o <<"/">> \o b

\* ------------------------------------------------------- module constants
BASE_PATH == <<"/","v","a","r","/","w","w","w","/","i","m","a","g","e","s",
               "/","k","e","r","n","e","l","-","c","i">>

\* models.VALID_ARCHITECTURES, in iteration order.
VALID_ARCHITECTURES == << <<"a","r","m","6","4">>, <<"a","r","m">>, <<"x","8","6">> >>

\* NO_START_CHARS.match(name): ^[^a-zA-Z0-9]
NO_START_CHARS(s) == Len(s) > 0 /\ s[1] \notin Alnum

\* NO_END_CHARS.search(name): [^a-zA-Z0-9]$ ; without re.MULTILINE, $ matches
\* at the end of the string and just before a newline that ends the string.
NO_END_CHARS(s) ==
    \E i \in 1..Len(s) :
        /\ s[i] \notin Alnum
        /\ \/ i = Len(s)
           \/ i = Len(s) - 1 /\ s[Len(s)] = "\n"

\* VALID_TEST_NAME.search(name): [^a-zA-Z0-9\.\-_+]
VALID_TEST_NAME(s) ==
    \E i \in 1..Len(s) : s[i] \notin (Alnum \cup {".", "-", "_", "+"})

\* VALID_KCI_NAME.search(name): [^a-zA-Z0-9\.\-_+=]
VALID_KCI_NAME(s) ==
    \E i \in 1..Len(s) : s[i] \notin (Alnum \cup {".", "-", "_", "+", "="})

\* -------------------------------------------------------------- validators
valid_name(s) ==
    IF NO_START_CHARS(s) \/ NO_END_CHARS(s) \/ VALID_KCI_NAME(s)
    THEN FALSE ELSE TRUE

valid_test_name_kci(s) ==
    IF NO_START_CHARS(s) \/ NO_END_CHARS(s) \/ VALID_KCI_NAME(s)
    THEN FALSE ELSE TRUE

valid_test_name(s) ==
    IF NO_START_CHARS(s) \/ NO_END_CHARS(s) \/ VALID_TEST_NAME(s)
    THEN FALSE ELSE TRUE

\* ---------------------------------------------------------------- resolver
\* The outcome of a call: the value returned, or the exception raised.
Ok(v) == [exc |-> "none", val |-> v]
Raise(e) == [exc |-> e, val |-> None]

_extrapolate_defconfig_full_from_kconfig_any(kconfig, dc) ==
    IF startswith(kconfig, <<"f","r","a","g","-">>)
       \/ endswith(kconfig, <<".","c","o","n","f","i","g">>)
    THEN dc \o <<"+">> \o
         replace(replace(kconfig, <<"f","r","a","g","-">>, -1),
                 <<".","c","o","n","f","i","g">>, -1)
    ELSE dc

_extrapolate_defconfig_full_from_kconfig(kconfig, dc) ==
    IF startswith(kconfig, <<"f","r","a","g","-">>)
       /\ endswith(kconfig, <<".","c","o","n","f","i","g">>)
    THEN dc \o <<"+">> \o
         replace(replace(kconfig, <<"f","r","a","g","-">>, -1),
                 <<".","c","o","n","f","i","g">>, -1)
    ELSE dc

\* The local function: dirname.replace("%s-" % arch, "", 1)
_replace_arch_value(arch, dirname) == replace(dirname, arch \o <<"-">>, 1)

\* The for loop over models.VALID_ARCHITECTURES from index i on.
RECURSIVE _scan_architectures(_, _)
_scan_architectures(i, dirname) ==
    IF i > Len(VALID_ARCHITECTURES) THEN None
    ELSE IF contains(dirname, VALID_ARCHITECTURES[i])
         THEN _replace_arch_value(VALID_ARCHITECTURES[i], dirname)
         ELSE _scan_architectures(i + 1, dirname)

\* `arch in dirname` raises TypeError when dirname is None.
_extrapolate_defconfig_full_from_dirname(dirname) ==
    IF dirname = None /\ Len(VALID_ARCHITECTURES) > 0 THEN Raise("TypeError")
    ELSE IF dirname = None THEN Ok(None)
    ELSE Ok(_scan_architectures(1, dirname))

defconfig_full_reconciled_dir(defconfig_full_k, defconfig_full_d, dc) ==
    IF /\ defconfig_full_d # None
       /\ defconfig_full_d # defconfig_full_k
       /\ defconfig_full_d # dc
    THEN defconfig_full_d
    ELSE defconfig_full_k

\* Lines 234-243: the default and the replacement branch.
defconfig_full_reconciled(defconfig_full_k, defconfig_full_d, dc) ==
    IF /\ defconfig_full_d # None
       /\ defconfig_full_d # defconfig_full_k
       /\ defconfig_full_d # dc
    THEN defconfig_full_k
    ELSE defconfig_full_k

\* Lines 228-243: the inference branch.
infer_defconfig_full(dir, dc, kconfig) ==
    LET defconfig_full_k == _extrapolate_defconfig_full_from_kconfig(kconfig, dc)
        d == _extrapolate_defconfig_full_from_dirname(dir)
    IN  IF d.exc # "none" THEN d
        ELSE Ok(defconfig_full_reconciled(defconfig_full_k, d.val, dc))

get_defconfig_full_infer_always(dir, dc, full, kconfig) ==
    IF full = None /\ kconfig = None THEN Ok(dc)
    ELSE IF kconfig # None THEN infer_defconfig_full(dir, dc, kconfig)
    ELSE Ok(full)

get_defconfig_full_unassigned(dir, dc, full, kconfig) ==
    IF full = None /\ kconfig = None THEN Ok(full)
    ELSE IF full = None /\ kconfig # None
         THEN infer_defconfig_full(dir, dc, kconfig)
    ELSE Ok(full)

get_defconfig_full(dir, dc, full, kconfig) ==
    IF full = None /\ kconfig = None THEN Ok(dc)
    ELSE IF full = None /\ kconfig # None
         THEN infer_defconfig_full(dir, dc, kconfig)
    ELSE Ok(full)

\* ------------------------------------------------------------ path builder
\* json_obj.get(key, None) or json_obj.get(other): None and "" are falsy.
or_else(a, b) == IF a = None \/ a = <<>> THEN b ELSE a

create_build_dir_defconfig_first(obj) ==
    LET job_dir == os_path_join(BASE_PATH, obj.job)
        kernel_dir == os_path_join(job_dir, obj.kernel)
        build_rel_dir == obj.arch \o <<"-">> \o
                         or_else(obj.defconfig, obj.defconfig_full)
    IN  os_path_join(kernel_dir, build_rel_dir)

create_build_dir(obj) ==
    LET job_dir == os_path_join(BASE_PATH, obj.job)
        kernel_dir == os_path_join(job_dir, obj.kernel)
        build_rel_dir == obj.arch \o <<"-">> \o
                         or_else(obj.defconfig_full, obj.defconfig)
    IN  os_path_join(kernel_dir, build_rel_dir)

\* ------------------------------------------------------------------ inputs
\* All strings of at most n characters (or pieces) over an alphabet.
SeqsUpTo(S, n) == UNION {[1..k -> S] : k \in 0..n}

\* The concatenation of a sequence of strings.
RECURSIVE Flatten(_)
Flatten(ps) == IF ps = <<>> THEN <<>> ELSE Head(ps) \o Flatten(Tail(ps))

NameChars == {"a", "Z", "9", ".", "-", "_", "+", "=", "/", "\n"}
Names == SeqsUpTo(NameChars, MaxNameLen)

FragPieces == { <<"f","r","a","g","-">>, <<".","c","o","n","f","i","g">>, <<"A">> }
Frags == {Flatten(ps) : ps \in SeqsUpTo(FragPieces, MaxFragPieces)}

DirPieces == { <<"a","r","m","-">>, <<"a","r","m","6","4","-">>,
               <<"d","c">>, <<"+","B">> }
DirNames == {Flatten(ps) : ps \in SeqsUpTo(DirPieces, MaxDirPieces)}

Defconfigs == { <<"d","c">>, <<"d","c","+","B">> }
DefconfigFulls == { <<>>, <<"d","c","+","A">> }

CompChars == {"a", "/", "-"}
Comps == SeqsUpTo(CompChars, MaxCompLen)
Archs == { <<"a","r","m">>, <<"/","x">> }
Descriptors == [job : Comps, kernel : Comps, arch : Archs,
                defconfig_full : {None} \cup Comps,
                defconfig : { <<"a">>, <<"b">> }]

NoObj == [job |-> None, kernel |-> None, arch |-> None,
          defconfig_full |-> None, defconfig |-> None]

\* ----------------------------------------------------------- state machine
Init ==
    /\ op = "idle"
    /\ name = None
    /\ build_dir = None
    /\ defconfig = None
    /\ defconfig_full = None
    /\ kconfig_fragments = None
    /\ json_obj = NoObj
    /\ is_valid = FALSE
    /\ ret = None
    /\ exc = "none"

ValidName ==
    /\ op = "idle"
    /\ \E s \in Names :
        /\ op' = "valid_name"
        /\ name' = s
        /\ is_valid' = valid_name(s)
        /\ build_dir' = None /\ defconfig' = None /\ defconfig_full' = None
        /\ kconfig_fragments' = None /\ json_obj' = NoObj
        /\ ret' = None /\ exc' = "none"

ValidTestName ==
    /\ op = "idle"
    /\ \E s \in Names :
        /\ op' = "valid_test_name"
        /\ name' = s
        /\ is_valid' = valid_test_name(s)
        /\ build_dir' = None /\ defconfig' = None /\ defconfig_full' = None
        /\ kconfig_fragments' = None /\ json_obj' = NoObj
        /\ ret' = None /\ exc' = "none"

GetDefconfigFull ==
    /\ op = "idle"
    /\ \E dir \in {None} \cup DirNames, dc \in Defconfigs,
       full \in {None} \cup DefconfigFulls, kconfig \in {None} \cup Frags :
        LET r == get_defconfig_full(dir, dc, full, kconfig)
        IN  /\ op' = "get_defconfig_full"
            /\ build_dir' = dir
            /\ defconfig' = dc
            /\ defconfig_full' = full
            /\ kconfig_fragments' = kconfig
            /\ ret' = r.val
            /\ exc' = r.exc
            /\ name' = None /\ json_obj' = NoObj /\ is_valid' = FALSE

CreateBuildDir ==
    /\ op = "idle"
    /\ \E obj \in Descriptors :
        /\ op' = "create_build_dir"
        /\ json_obj' = obj
        /\ ret' = create_build_dir(obj)
        /\ exc' = "none"
        /\ name' = None /\ build_dir' = None /\ defconfig' = None
        /\ defconfig_full' = None /\ kconfig_fragments' = None
        /\ is_valid' = FALSE

\* The caller takes the result; the module keeps nothing between calls.
Return ==
    /\ op # "idle"
    /\ op' = "idle"
    /\ name' = None /\ build_dir' = None /\ defconfig' = None
    /\ defconfig_full' = None /\ kconfig_fragments' = None
    /\ json_obj' = NoObj /\ is_valid' = FALSE /\ ret' = None /\ exc' = "none"

Next ==
    \/ ValidName
    \/ ValidTestName
    \/ GetDefconfigFull
    \/ CreateBuildDir
    \/ Return

Spec == Init /\ [][Next]_vars

\* ------------------------------------------------------------------ claims
FragPrefix == <<"f","r","a","g","-">>
ConfigSuffix == <<".","c","o","n","f","i","g">>
KciChars == Alnum \cup {".", "-", "_", "+", "="}

\* The name fails one of the four conditions of the general grammar.
Malformed(s) ==
    \/ s = <<>>
    \/ Len(s) > 0 /\ s[1] \notin Alnum
    \/ Len(s) > 0 /\ s[Len(s)] \notin Alnum
    \/ \E i \in 1..Len(s) : s[i] \notin KciChars

\* C1: valid_name(s) is False when s is empty, starts or ends with a
\* non-alphanumeric character, or holds a character outside the general set.
C1_MalformedRejected ==
    (op = "valid_name" /\ Malformed(name)) => is_valid = FALSE

\* C2: a present defconfig_full is returned unchanged, whatever build_dir,
\* defconfig and kconfig_fragments are.
C2_ExplicitWins ==
    (op = "get_defconfig_full" /\ defconfig_full # None)
        => (exc = "none" /\ ret = defconfig_full)

C2_Witness ==
    /\ op = "get_defconfig_full"
    /\ defconfig_full = <<"d","c","+","A">>
    /\ kconfig_fragments = FragPrefix \o ConfigSuffix
    /\ build_dir = <<"a","r","m","-","d","c","+","B">>
    /\ defconfig = <<"d","c">>
    /\ ret = <<"d","c","+","A">>

MatchesFragPattern(k) == startswith(k, FragPrefix) /\ endswith(k, ConfigSuffix)

\* The fragment name without its leading "frag-" and its trailing ".config".
Tag(k) == SubSeq(k, Len(FragPrefix) + 1, Len(k) - Len(ConfigSuffix))

\* C3: with defconfig_full absent and kconfig_fragments of the form
\* frag-<tag>.config, the result is defconfig + "+" + tag, the tag keeping
\* every inner occurrence of "frag-" and ".config".
C3_TagKeepsInner ==
    (/\ op = "get_defconfig_full"
     /\ build_dir # None
     /\ defconfig_full = None
     /\ kconfig_fragments # None
     /\ MatchesFragPattern(kconfig_fragments))
        => ret = defconfig \o <<"+">> \o Tag(kconfig_fragments)

\* C4: get_defconfig_full never raises and always returns a string, also
\* when build_dir is absent while kconfig_fragments is present.
C4_NeverRaises ==
    op = "get_defconfig_full" => (exc = "none" /\ ret # None)

\* BASE_PATH/job/kernel/architecture-c, composed with plain concatenation.
ExpectedPath(obj, c) ==
    BASE_PATH \o <<"/">> \o obj.job \o <<"/">> \o obj.kernel \o <<"/">>
              \o obj.arch \o <<"-">> \o c

\* C5 as stated: the path is BASE_PATH/job/kernel/arch-C for every
\* descriptor, with C the defconfig_full field whenever it is supplied.
C5_ExactPathAlways ==
    op = "create_build_dir"
        => ret = ExpectedPath(json_obj,
                              IF json_obj.defconfig_full # None
                              THEN json_obj.defconfig_full
                              ELSE json_obj.defconfig)

\* A path component that join() neither re-roots nor merges.
Plain(c) == c # <<>> /\ c[1] # "/" /\ c[Len(c)] # "/"

\* C5 as amended: for a non-empty job and kernel that neither start nor end
\* with "/" and an architecture that does not start with "/", the path is
\* BASE_PATH/job/kernel/arch-C, with C the defconfig_full field when it is
\* supplied and non-empty, and the defconfig otherwise.
C5_ExactPathPlain ==
    (/\ op = "create_build_dir"
     /\ Plain(json_obj.job)
     /\ Plain(json_obj.kernel)
     /\ ~startswith(json_obj.arch, <<"/">>))
        => ret = ExpectedPath(json_obj,
                              IF json_obj.defconfig_full \notin {None, <<>>}
                              THEN json_obj.defconfig_full
                              ELSE json_obj.defconfig)

C5_Witness ==
    /\ op = "create_build_dir"
    /\ json_obj.job = <<"a">>
    /\ json_obj.kernel = <<"a","a">>
    /\ json_obj.arch = <<"a","r","m">>
    /\ json_obj.defconfig_full = <<"a","-">>
    /\ json_obj.defconfig = <<"b">>
    /\ ret = BASE_PATH \o <<"/","a","/","a","a","/","a","r","m","-","a","-">>

\* C6: with defconfig_full and kconfig_fragments both absent the result is
\* defconfig, for every build_dir (the directory is not inspected, so an
\* absent one raises nothing).
C6_BothAbsent ==
    (op = "get_defconfig_full" /\ defconfig_full = None
                               /\ kconfig_fragments = None)
        => (exc = "none" /\ ret = defconfig)

C6_Witness ==
    /\ op = "get_defconfig_full"
    /\ defconfig_full = None
    /\ kconfig_fragments = None
    /\ build_dir = <<"a","r","m","-","d","c","+","B">>
    /\ defconfig = <<"d","c">>
    /\ ret = <<"d","c">>

C8_TestNameExcludesEquals ==
    op = "valid_test_name"
        => (is_valid <=> (valid_name(name)
                          /\ \A i \in 1..Len(name) : name[i] # "="))

C8_Witness ==
    /\ op = "valid_test_name"
    /\ name = <<"a","=","9">>
    /\ is_valid = FALSE

FullConfiguration(obj) ==
    IF obj.defconfig_full \notin {None, <<>>}
    THEN obj.defconfig_full ELSE obj.defconfig

Validated(obj) ==
    /\ valid_name(obj.job)
    /\ valid_name(obj.kernel)
    /\ valid_name(FullConfiguration(obj))

\* C10: for a fixed supported architecture, two descriptors whose job, kernel and
\* full-configuration values valid_name accepts get the same build directory
\* only if they have the same job, kernel and full-configuration value.
C10_UniquePaths ==
    (/\ op = "create_build_dir"
     /\ \E i \in 1..Len(VALID_ARCHITECTURES) : json_obj.arch = VALID_ARCHITECTURES[i]
     /\ Validated(json_obj))
        => \A other \in Descriptors :
              (/\ other.arch = json_obj.arch
               /\ Validated(other)
               /\ create_build_dir(other) = ret)
                 => /\ other.job = json_obj.job
                    /\ other.kernel = json_obj.kernel
                    /\ FullConfiguration(other) = FullConfiguration(json_obj)

=============================================================================
